---- MODULE Spec2Model ----
(***************************************************************************)
(* The Store of the budget planner (src/database.py, class BudgetDatabase) *)
(* as a state machine over its three SQLite tables, driven with the        *)
(* arguments the presentation layer (src/app.py) builds.                   *)
(*                                                                         *)
(* Representation:                                                         *)
(*   - a table is the set of its rows, a row a record of its columns;      *)
(*   - Optional[T] is None == <<>> or Some(x) == <<x>>;                    *)
(*   - TEXT that is only tested for equality is a TLA+ string; the date    *)
(*     column, which SQLite orders with its BINARY collation, is the       *)
(*     sequence of its characters, so that the order is computed;          *)
(*   - REAL amounts are integers (the checks do not reach rounding);       *)
(*   - an icon is written as its code point, "U+1F354".                    *)
(***************************************************************************)
EXTENDS Integers, Sequences, FiniteSets, TLC

VARIABLES
    categories,        \* table categories: rows [id, name, type, icon]
    transactions,      \* table transactions: rows [id, amount, category, description, date, type]
    budgets,           \* table budgets: rows [id, category, amount, month, year]
    sqlite_sequence,   \* AUTOINCREMENT bookkeeping: largest rowid ever used, per table
    last,              \* the last call: [op, args, ret] (+ what its statement touched)
    ledger,            \* history: the transactions inserted and not since removed
    issued             \* history: every id a transaction was inserted under

vars == <<categories, transactions, budgets, sqlite_sequence, last, ledger, issued>>

----------------------------------------------------------------------------
(* Bounds of the check *)

MaxTransactionId == 3     \* rows ever inserted into transactions
MaxBudgetId == 3          \* rows ever inserted into budgets

----------------------------------------------------------------------------
(* Values *)

None == <<>>
Some(x) == <<x>>

\* Python's truth test of an Optional[str]: None and "" are both false.
Truthy(opt) == opt # None /\ Len(opt[1]) > 0

Types == {"income", "expense"}

default_categories ==
    << <<"Food & Dining",  "expense", "U+1F354">>,
       <<"Transportation", "expense", "U+1F697">>,
       <<"Housing & Rent", "expense", "U+1F3E0">>,
       <<"Utilities",      "expense", "U+1F4A1">>,
       <<"Entertainment",  "expense", "U+1F3AC">>,
       <<"Shopping",       "expense", "U+1F6D2">>,
       <<"Healthcare",     "expense", "U+1F3E5">>,
       <<"Education",      "expense", "U+1F4DA">>,
       <<"Other",          "expense", "U+1F4CC">>,
       <<"Salary",         "income",  "U+1F4B0">>,
       <<"Freelance",      "income",  "U+1F4BC">>,
       <<"Investment",     "income",  "U+1F4C8">>,
       <<"Gift",           "income",  "U+1F381">>,
       <<"Other Income",   "income",  "U+1F4B5">> >>

DefaultIcon == "U+1F4CC"

----------------------------------------------------------------------------
(* Dates: the presentation layer formats a calendar date with              *)
(* strftime('%Y-%m-%d'); the store keeps and compares the text.            *)

Digit(n) == <<"0", "1", "2", "3", "4", "5", "6", "7", "8", "9">>[n + 1]

RECURSIVE Decimal(_)
Decimal(n) == IF n < 10 THEN <<Digit(n)>> ELSE Decimal(n \div 10) \o <<Digit(n % 10)>>

\* %m and %d: two digits, zero-padded.
ZeroPad2(n) == IF n < 10 THEN <<"0", Digit(n)>> ELSE Decimal(n)

\* date.strftime('%Y-%m-%d') of the calendar date <<year, month, day>>.
strftime(d) == Decimal(d[1]) \o <<"-">> \o ZeroPad2(d[2]) \o <<"-">> \o ZeroPad2(d[3])

\* The byte of each character of a formatted date.
CharCode ==
    [c \in {"-", "0", "1", "2", "3", "4", "5", "6", "7", "8", "9"} |->
        CASE c = "-" -> 45
          [] c = "0" -> 48 [] c = "1" -> 49 [] c = "2" -> 50 [] c = "3" -> 51
          [] c = "4" -> 52 [] c = "5" -> 53 [] c = "6" -> 54 [] c = "7" -> 55
          [] c = "8" -> 56 [] c = "9" -> 57]

\* SQLite's BINARY collation on TEXT: memcmp, then the shorter text first.
RECURSIVE TextLess(_, _)
TextLess(a, b) ==
    IF a = <<>> THEN b # <<>>
    ELSE IF b = <<>> THEN FALSE
    ELSE IF Head(a) # Head(b) THEN CharCode[Head(a)] < CharCode[Head(b)]
    ELSE TextLess(Tail(a), Tail(b))

TextLeq(a, b) == ~TextLess(b, a)

----------------------------------------------------------------------------
(* Rows and statements *)

\* Variant: INTEGER PRIMARY KEY without AUTOINCREMENT, one more than the
\* largest rowid now in the table.
NextRowIdOfStoredRows(table) ==
    LET ids == {r.id : r \in (CASE table = "categories" -> categories
                                [] table = "transactions" -> transactions
                                [] table = "budgets" -> budgets)}
    IN  IF ids = {} THEN 1 ELSE 1 + CHOOSE i \in ids : \A j \in ids : j <= i
\* AUTOINCREMENT: one more than the largest rowid the table ever held.
NextRowId(table) == sqlite_sequence[table] + 1

\* Variant: INSERT without OR IGNORE and without the UNIQUE name.
InsertCategoryAgain(rows, seq, name, cat_type, icon) ==
    [rows |-> rows \cup {[id |-> seq + 1, name |-> name, type |-> cat_type, icon |-> icon]},
     seq |-> seq + 1]
\* INSERT OR IGNORE INTO categories: a row whose name is taken is skipped.
InsertOrIgnoreCategory(rows, seq, name, cat_type, icon) ==
    IF \E c \in rows : c.name = name
    THEN [rows |-> rows, seq |-> seq]
    ELSE [rows |-> rows \cup {[id |-> seq + 1, name |-> name, type |-> cat_type, icon |-> icon]},
          seq |-> seq + 1]

\* The loop over default_categories, from its i-th entry on.
RECURSIVE SeedDefaults(_, _, _)
SeedDefaults(rows, seq, i) ==
    IF i > Len(default_categories) THEN [rows |-> rows, seq |-> seq]
    ELSE LET d == default_categories[i]
             r == InsertOrIgnoreCategory(rows, seq, d[1], d[2], d[3])
         IN  SeedDefaults(r.rows, r.seq, i + 1)

\* Variant: the amount of an expense is stored with a minus sign.
InsertTransactionSigned(rows, id, amount, category, description, date, trans_type) ==
    rows \cup {[id |-> id,
                amount |-> IF trans_type = "expense" THEN 0 - amount ELSE amount,
                category |-> category, description |-> description, date |-> date,
                type |-> trans_type]}
\* INSERT INTO transactions (amount, category, description, date, type).
InsertTransaction(rows, id, amount, category, description, date, trans_type) ==
    rows \cup {[id |-> id, amount |-> amount, category |-> category,
                description |-> description, date |-> date, type |-> trans_type]}

\* Variant: WHERE id <= ?
DeleteTransactionRowsUpTo(rows, trans_id) == {t \in rows : t.id > trans_id}
\* DELETE FROM transactions WHERE id = ?
DeleteTransactionRows(rows, trans_id) == {t \in rows : t.id # trans_id}

\* The orders in which a result set can be returned.
RECURSIVE Orderings(_)
Orderings(rows) ==
    IF rows = {} THEN {<<>>}
    ELSE UNION {{<<r>> \o s : s \in Orderings(rows \ {r})} : r \in rows}

\* The WHERE clause get_transactions builds: "WHERE 1=1", then one condition
\* for each argument that is true.
WhereTransactions(rows, start_date, end_date, trans_type, category) ==
    {t \in rows :
        /\ Truthy(start_date) => TextLeq(start_date[1], t.date)
        /\ Truthy(end_date) => TextLeq(t.date, end_date[1])
        /\ Truthy(trans_type) => t.type = trans_type[1]
        /\ Truthy(category) => t.category = category[1]}

\* The text of the query get_transactions builds.
Clause(opt, text) == IF Truthy(opt) THEN <<text>> ELSE <<>>
QueryText(start_date, end_date, trans_type, category) ==
    <<"SELECT * FROM transactions WHERE 1=1">>
        \o Clause(start_date, " AND date >= ?")
        \o Clause(end_date, " AND date <= ?")
        \o Clause(trans_type, " AND type = ?")
        \o Clause(category, " AND category = ?")
        \o <<" ORDER BY date DESC">>

\* Variant: ORDER BY date ASC.
OrderByDateAsc(rows) ==
    {s \in Orderings(rows) :
        \A i, j \in 1..Cardinality(rows) : i < j => ~TextLess(s[j].date, s[i].date)}
\* ORDER BY date DESC: rows of equal date in any order.
OrderByDateDesc(rows) ==
    {s \in Orderings(rows) :
        \A i, j \in 1..Cardinality(rows) : i < j => ~TextLess(s[i].date, s[j].date)}

\* SUM(amount) over a set of rows.
RECURSIVE SumAmount(_)
SumAmount(rows) ==
    IF rows = {} THEN 0
    ELSE LET r == CHOOSE r \in rows : TRUE IN r.amount + SumAmount(rows \ {r})

\* Variant: without type = 'expense'.
SpendingGroupsAllTypes(rows, start_date, end_date) ==
    LET sel == {t \in rows : TextLeq(start_date, t.date) /\ TextLeq(t.date, end_date)}
    IN  {[category |-> c, total |-> SumAmount({t \in sel : t.category = c})] :
            c \in {t.category : t \in sel}}
\* SELECT category, SUM(amount) as total FROM transactions
\* WHERE type = 'expense' AND date >= ? AND date <= ? GROUP BY category
SpendingGroups(rows, start_date, end_date) ==
    LET sel == {t \in rows : /\ t.type = "expense"
                             /\ TextLeq(start_date, t.date)
                             /\ TextLeq(t.date, end_date)}
    IN  {[category |-> c, total |-> SumAmount({t \in sel : t.category = c})] :
            c \in {t.category : t \in sel}}

\* ORDER BY total DESC: groups of equal total in any order.
OrderByTotalDesc(groups) ==
    {s \in Orderings(groups) :
        \A i, j \in 1..Cardinality(groups) : i < j => s[i].total >= s[j].total}

\* Variant: INSERT OR REPLACE INTO categories.
InsertOrReplaceCategory(rows, seq, name, cat_type, icon) ==
    [rows |-> {c \in rows : c.name # name}
                \cup {[id |-> seq + 1, name |-> name, type |-> cat_type, icon |-> icon]},
     seq |-> seq + 1, ok |-> TRUE]
\* INSERT INTO categories inside try/except sqlite3.IntegrityError: the UNIQUE
\* name rejects the row, and ok is what add_category returns.
InsertCategory(rows, seq, name, cat_type, icon) ==
    IF \E c \in rows : c.name = name
    THEN [rows |-> rows, seq |-> seq, ok |-> FALSE]
    ELSE [rows |-> rows \cup {[id |-> seq + 1, name |-> name, type |-> cat_type, icon |-> icon]},
          seq |-> seq + 1, ok |-> TRUE]

\* The rows of budgets that UNIQUE(category, month, year) sets against a new row.
BudgetConflicts(rows, category, month, year) ==
    {b \in rows : b.category = category /\ b.month = month /\ b.year = year}

\* Variant: INSERT into a table without UNIQUE(category, month, year).
InsertBudgetKeepingOld(rows, id, category, amount, month, year) ==
    rows \cup {[id |-> id, category |-> category, amount |-> amount,
                month |-> month, year |-> year]}
\* Variant: INSERT OR IGNORE INTO budgets.
InsertOrIgnoreBudget(rows, id, category, amount, month, year) ==
    IF BudgetConflicts(rows, category, month, year) # {} THEN rows
    ELSE rows \cup {[id |-> id, category |-> category, amount |-> amount,
                     month |-> month, year |-> year]}
\* INSERT OR REPLACE INTO budgets: the conflicting rows are deleted, then the
\* new row is inserted under a new id.
InsertOrReplaceBudget(rows, id, category, amount, month, year) ==
    (rows \ BudgetConflicts(rows, category, month, year))
        \cup {[id |-> id, category |-> category, amount |-> amount,
               month |-> month, year |-> year]}

\* SELECT amount FROM budgets WHERE category = ? AND month = ? AND year = ?,
\* fetchone(), then "result[0] if result else None".
SelectBudget(rows, category, month, year) ==
    IF BudgetConflicts(rows, category, month, year) = {} THEN {None}
    ELSE {Some(b.amount) : b \in BudgetConflicts(rows, category, month, year)}

\* SELECT category, amount FROM budgets WHERE month = ? AND year = ?, in any order.
SelectAllBudgets(rows, month, year) ==
    {[i \in 1..Len(s) |-> [category |-> s[i].category, amount |-> s[i].amount]] :
        s \in Orderings({b \in rows : b.month = month /\ b.year = year})}

\* Variant: the DELETE left out.
KeepAllRows(rows) == rows
\* DELETE FROM transactions / DELETE FROM budgets
DeleteAllTransactions(rows) == {}
DeleteAllBudgets(rows) == {}

\* What each query can return on given tables.
TransactionsResult(rows, start_date, end_date, trans_type, category) ==
    OrderByDateDesc(WhereTransactions(rows, start_date, end_date, trans_type, category))
SpendingResult(rows, start_date, end_date) ==
    OrderByTotalDesc(SpendingGroups(rows, start_date, end_date))

----------------------------------------------------------------------------
(* Operations *)

\* The database file after the first BudgetDatabase(): empty tables, seeded.
Init ==
    /\ categories = SeedDefaults({}, 0, 1).rows
    /\ transactions = {}
    /\ budgets = {}
    /\ sqlite_sequence = [categories |-> SeedDefaults({}, 0, 1).seq,
                          transactions |-> 0, budgets |-> 0]
    /\ last = [op |-> "init_database", args |-> <<>>, ret |-> None]
    /\ ledger = {}
    /\ issued = {}

\* BudgetDatabase() on every rerun of the script: the tables exist, the seed
\* is inserted where absent.
init_database ==
    LET seeded == SeedDefaults(categories, sqlite_sequence.categories, 1) IN
    /\ categories' = seeded.rows
    /\ sqlite_sequence' = [sqlite_sequence EXCEPT !.categories = seeded.seq]
    /\ last' = [op |-> "init_database", args |-> <<>>, ret |-> None]
    /\ UNCHANGED <<transactions, budgets, ledger, issued>>

add_transaction(amount, category, description, date, trans_type) ==
    /\ sqlite_sequence.transactions < MaxTransactionId
    /\ LET id == NextRowId("transactions") IN
         /\ transactions' = InsertTransaction(transactions, id, amount, category,
                                              description, date, trans_type)
         /\ sqlite_sequence' = [sqlite_sequence EXCEPT !.transactions = id]
         /\ ledger' = ledger \cup {[id |-> id, amount |-> amount, category |-> category,
                                    description |-> description, date |-> date,
                                    type |-> trans_type]}
         /\ issued' = issued \cup {id}
    /\ last' = [op |-> "add_transaction",
                args |-> <<amount, category, description, date, trans_type>>,
                ret |-> None]
    /\ UNCHANGED <<categories, budgets>>

delete_transaction(trans_id) ==
    /\ transactions' = DeleteTransactionRows(transactions, trans_id)
    /\ ledger' = {t \in ledger : t.id # trans_id}
    /\ last' = [op |-> "delete_transaction", args |-> <<trans_id>>, ret |-> None,
                rowcount |-> Cardinality(transactions) - Cardinality(transactions')]
    /\ UNCHANGED <<categories, budgets, sqlite_sequence, issued>>

get_transactions(start_date, end_date, trans_type, category) ==
    /\ \E df \in TransactionsResult(transactions, start_date, end_date, trans_type, category) :
          last' = [op |-> "get_transactions",
                   query |-> QueryText(start_date, end_date, trans_type, category),
                   ret |-> df]
    /\ UNCHANGED <<categories, transactions, budgets, sqlite_sequence, ledger, issued>>

add_category(name, cat_type, icon) ==
    LET r == InsertCategory(categories, sqlite_sequence.categories, name, cat_type, icon) IN
    /\ categories' = r.rows
    /\ sqlite_sequence' = [sqlite_sequence EXCEPT !.categories = r.seq]
    /\ last' = [op |-> "add_category", args |-> <<name, cat_type, icon>>, ret |-> r.ok]
    /\ UNCHANGED <<transactions, budgets, ledger, issued>>

set_budget(category, amount, month, year) ==
    /\ sqlite_sequence.budgets < MaxBudgetId
    /\ LET id == NextRowId("budgets") IN
         /\ budgets' = InsertOrReplaceBudget(budgets, id, category, amount, month, year)
         /\ sqlite_sequence' = [sqlite_sequence EXCEPT !.budgets = id]
    /\ last' = [op |-> "set_budget", args |-> <<category, amount, month, year>>,
                ret |-> None,
                replaced |-> BudgetConflicts(budgets, category, month, year)]
    /\ UNCHANGED <<categories, transactions, ledger, issued>>

get_budget(category, month, year) ==
    /\ \E result \in SelectBudget(budgets, category, month, year) :
          last' = [op |-> "get_budget", args |-> <<category, month, year>>, ret |-> result]
    /\ UNCHANGED <<categories, transactions, budgets, sqlite_sequence, ledger, issued>>

get_all_budgets(month, year) ==
    /\ \E df \in SelectAllBudgets(budgets, month, year) :
          last' = [op |-> "get_all_budgets", args |-> <<month, year>>, ret |-> df]
    /\ UNCHANGED <<categories, transactions, budgets, sqlite_sequence, ledger, issued>>

get_spending_by_category(start_date, end_date) ==
    /\ \E df \in SpendingResult(transactions, start_date, end_date) :
          last' = [op |-> "get_spending_by_category", args |-> <<start_date, end_date>>,
                   ret |-> df]
    /\ UNCHANGED <<categories, transactions, budgets, sqlite_sequence, ledger, issued>>

clear_all_data ==
    /\ transactions' = DeleteAllTransactions(transactions)
    /\ budgets' = DeleteAllBudgets(budgets)
    /\ ledger' = {}
    /\ last' = [op |-> "clear_all_data", args |-> <<>>, ret |-> None,
                rowcount |-> <<Cardinality(transactions), Cardinality(budgets)>>]
    /\ UNCHANGED <<categories, sqlite_sequence, issued>>

----------------------------------------------------------------------------
(* The presentation layer: the forms and buttons that call the store *)

\* What a user can type into an amount field.
TypedAmounts == {-1, 0, 1, 2}

\* st.number_input(min_value=...): the widget hands over no value below
\* min_value.
number_input(min_value) == {v \in TypedAmounts : v >= min_value}

\* get_categories(cat_type): the labels f"{icon} {name}" of the categories of
\* the type, a label being the sequence icon, space, name.  The order of the
\* list (ORDER BY name) is left out: a select box offers every entry.
get_categories(cat_type) ==
    { <<c.icon, " ", c.name>> :
        c \in {c \in categories : Truthy(cat_type) => c.type = cat_type[1]} }

RECURSIVE Join(_)
Join(parts) == IF parts = <<>> THEN "" ELSE Head(parts) \o Join(Tail(parts))

\* label.split(' ', 1)[1] if ' ' in label else label
clean_category(label) ==
    IF \E i \in 1..Len(label) : label[i] = " "
    THEN LET i == CHOOSE i \in 1..Len(label) :
                     label[i] = " " /\ \A j \in 1..(i - 1) : label[j] # " "
         IN  Join(SubSeq(label, i + 1, Len(label)))
    ELSE Join(label)

\* "Add Income" submitted.
income_form(income_amount, income_category, income_date, income_description) ==
    IF income_amount > 0
    THEN add_transaction(income_amount, clean_category(income_category),
                         income_description, strftime(income_date), "income")
    ELSE /\ last' = [op |-> "income_form",
                     args |-> <<income_amount, income_category, income_date,
                                income_description>>,
                     ret |-> "Please enter a valid amount."]
         /\ UNCHANGED <<categories, transactions, budgets, sqlite_sequence, ledger, issued>>

\* "Add Expense" submitted.
expense_form(expense_amount, expense_category, expense_date, expense_description) ==
    IF expense_amount > 0
    THEN add_transaction(expense_amount, clean_category(expense_category),
                         expense_description, strftime(expense_date), "expense")
    ELSE /\ last' = [op |-> "expense_form",
                     args |-> <<expense_amount, expense_category, expense_date,
                                expense_description>>,
                     ret |-> "Please enter a valid amount."]
         /\ UNCHANGED <<categories, transactions, budgets, sqlite_sequence, ledger, issued>>

\* The delete button of a row of the transactions tab, which lists the
\* transactions of the date range chosen in the sidebar.
delete_button(start_date, end_date) ==
    \E row \in WhereTransactions(transactions, Some(start_date), Some(end_date), None, None) :
       delete_transaction(row.id)

----------------------------------------------------------------------------
(* Inputs *)

\* Calendar dates as the date pickers give them, and their stored text.
CalendarDates == {<<2023, 12, 31>>, <<2024, 2, 5>>, <<2024, 10, 1>>}
Dates == {strftime(d) : d \in CalendarDates}

\* <<amount, category, description, date, type>> of the transactions entered.
FilterInputs ==
    { <<1, "Food & Dining", "lunch", strftime(<<2024, 2, 5>>),  "expense">>,
      <<2, "Food & Dining", "",      strftime(<<2024, 10, 1>>), "expense">>,
      <<2, "Shopping",      "shoes", strftime(<<2024, 2, 5>>),  "expense">>,
      <<1, "Food & Dining", "",      strftime(<<2024, 10, 1>>), "income">> }
TransactionInputs ==
    FilterInputs \cup
    { <<2, "Salary",        "",      strftime(<<2023, 12, 31>>), "income">>,
      <<1, "Shopping",      "",      strftime(<<2023, 12, 31>>), "expense">> }
TransactionIds == 1..MaxTransactionId

\* Filters as a caller can pass them: left out, the empty string, or a value.
DateFilters == {None, Some(<<>>), Some(strftime(<<2024, 2, 5>>)), Some(strftime(<<2024, 10, 1>>))}
TypeFilters == {None, Some(""), Some("expense")}
CategoryFilters == {None, Some(""), Some("Food & Dining")}

CategoryNames == {"Salary", "Pets"}
Icons == {DefaultIcon, "U+1F43E"}

\* <<category, month, year>> of the budgets set.
BudgetCategories == {"Food & Dining", "Shopping"}
Months == {1, 12}
Years == {2024, 2025}
BudgetKeys ==
    { <<"Food & Dining", 1, 2024>>, <<"Shopping", 1, 2024>>,
      <<"Food & Dining", 12, 2024>>, <<"Food & Dining", 1, 2025>> }
BudgetAmounts == {1, 2}

\* The categories picked in the two forms.
FormCategories == {"Salary", "Food & Dining"}

----------------------------------------------------------------------------
(* The store: every operation, the three tables together *)

Next ==
    \/ init_database
    \/ add_transaction(1, "Food & Dining", "", strftime(<<2024, 2, 5>>), "expense")
    \/ \E trans_id \in TransactionIds : delete_transaction(trans_id)
    \/ \E trans_type \in {None, Some("expense")} :
          get_transactions(Some(strftime(<<2024, 2, 5>>)), None, trans_type, None)
    \/ \E name \in CategoryNames, cat_type \in Types, icon \in Icons :
          add_category(name, cat_type, icon)
    \/ \E month \in Months : set_budget("Food & Dining", 1, month, 2024)
    \/ \E month \in Months : get_budget("Food & Dining", month, 2024)
    \/ \E month \in Months : get_all_budgets(month, 2024)
    \/ get_spending_by_category(strftime(<<2024, 2, 5>>), strftime(<<2024, 10, 1>>))
    \/ clear_all_data

Spec == Init /\ [][Next]_vars

(* The transactions table: transactions of every kind *)

NextTransactions ==
    \/ \E t \in TransactionInputs : add_transaction(t[1], t[2], t[3], t[4], t[5])
    \/ \E trans_id \in TransactionIds : delete_transaction(trans_id)
    \/ \E start_date \in {None, Some(strftime(<<2024, 2, 5>>))} :
          get_transactions(start_date, None, None, None)
    \/ \E start_date \in Dates, end_date \in Dates :
          get_spending_by_category(start_date, end_date)
    \/ clear_all_data

SpecTransactions == Init /\ [][NextTransactions]_vars

(* The filters of get_transactions: every combination *)

NextFilters ==
    \/ \E t \in FilterInputs : add_transaction(t[1], t[2], t[3], t[4], t[5])
    \/ \E trans_id \in TransactionIds : delete_transaction(trans_id)
    \/ \E start_date \in DateFilters, end_date \in DateFilters,
          trans_type \in TypeFilters, category \in CategoryFilters :
          get_transactions(start_date, end_date, trans_type, category)

SpecFilters == Init /\ [][NextFilters]_vars

(* The budgets table: budgets that differ in category, month or year *)

NextBudgets ==
    \/ \E k \in BudgetKeys, amount \in BudgetAmounts : set_budget(k[1], amount, k[2], k[3])
    \/ \E category \in BudgetCategories, month \in Months, year \in Years :
          get_budget(category, month, year)
    \/ \E month \in Months, year \in Years : get_all_budgets(month, year)
    \/ clear_all_data

SpecBudgets == Init /\ [][NextBudgets]_vars

(* The application: transactions come in through the two forms *)

NextApp ==
    \/ init_database
    \/ \E income_amount \in number_input(0),
          income_category \in {l \in get_categories(Some("income")) : l[3] \in FormCategories} :
          income_form(income_amount, income_category, <<2024, 2, 5>>, "")
    \/ \E expense_amount \in number_input(0),
          expense_category \in {l \in get_categories(Some("expense")) : l[3] \in FormCategories} :
          expense_form(expense_amount, expense_category, <<2024, 2, 5>>, "")
    \/ \E start_date \in Dates, end_date \in Dates : delete_button(start_date, end_date)
    \/ \E name \in CategoryNames : add_category(name, "expense", DefaultIcon)
    \/ set_budget("Food & Dining", 1, 1, 2024)
    \/ clear_all_data

SpecApp == Init /\ [][NextApp]_vars

----------------------------------------------------------------------------
(* Properties *)

NoFilter == TransactionsResult(transactions, None, None, None, None)

Range(s) == {s[i] : i \in 1..Len(s)}

KeyOf(b) == <<b.category, b.month, b.year>>

\* The budgets as (category, month, year, amount), without the row ids.
BudgetFacts(rows) == {<<b.category, b.month, b.year, b.amount>> : b \in rows}

\* C1: in every state the store reaches through initialize, setBudget,
\* clearAllData, addTransaction, deleteTransaction and addCategory, no two
\* rows of budgets have the same (category, month, year).
C1_BudgetKeyUnique ==
    \A b1, b2 \in budgets : KeyOf(b1) = KeyOf(b2) => b1 = b2

\* A budget was set again while a budget of another month was there.
C1_Witness ==
    /\ last.op = "set_budget"
    /\ last.replaced # {}
    /\ Cardinality(budgets) = 2

\* C2: a set_budget call that repeats the arguments of the call just before
\* it leaves the (category, month, year, amount) rows as the first call left
\* them, with exactly one row for its key, and that row holds its amount.
C2_SetBudgetIdempotent ==
    [][(last.op = "set_budget" /\ last'.op = "set_budget" /\ last'.args = last.args) =>
        LET c == last'.args[1]
            a == last'.args[2]
            m == last'.args[3]
            y == last'.args[4]
        IN  /\ BudgetFacts(budgets') = BudgetFacts(budgets)
            /\ Cardinality(budgets') = Cardinality(budgets)
            /\ Cardinality({b \in budgets' : KeyOf(b) = <<c, m, y>>}) = 1
            /\ \A b \in budgets' : KeyOf(b) = <<c, m, y>> => b.amount = a]_vars

\* The second of two identical calls in a row, with another budget present.
C2_Witness ==
    /\ last.op = "set_budget"
    /\ \E r \in last.replaced :
          r.amount = last.args[2] /\ r.id = sqlite_sequence.budgets - 1
    /\ Cardinality(budgets) = 2

\* C3: set_budget with another amount for a key that has a row replaces the
\* row: get_all_budgets of that month and year returns as many rows as
\* before, get_budget of the key returns the new amount, and the rows of
\* every other key are as they were.
C3_SetBudgetReplaces ==
    [][(/\ last'.op = "set_budget"
        /\ \E b \in budgets : KeyOf(b) = <<last'.args[1], last'.args[3], last'.args[4]>>
                              /\ b.amount # last'.args[2]) =>
        LET c == last'.args[1]
            a2 == last'.args[2]
            m == last'.args[3]
            y == last'.args[4]
        IN  /\ \A before \in SelectAllBudgets(budgets, m, y),
                  after \in SelectAllBudgets(budgets', m, y) : Len(after) = Len(before)
            /\ SelectBudget(budgets', c, m, y) = {Some(a2)}
            /\ {b \in budgets' : KeyOf(b) # <<c, m, y>>}
                 = {b \in budgets : KeyOf(b) # <<c, m, y>>}]_vars

\* A budget replaced by one of another amount, next to a budget of another key.
C3_Witness ==
    /\ last.op = "set_budget"
    /\ \E r \in last.replaced : r.amount # last.args[2]
    /\ \E b \in budgets : KeyOf(b) # <<last.args[1], last.args[3], last.args[4]>>

\* The calendar date a stored text stands for, and the order of the calendar.
DateOf(text) == CHOOSE d \in CalendarDates : strftime(d) = text

NotAfter(d, e) ==
    \/ d[1] < e[1]
    \/ d[1] = e[1] /\ d[2] < e[2]
    \/ d[1] = e[1] /\ d[2] = e[2] /\ d[3] <= e[3]

\* C4: get_transactions without filters returns the transactions inserted and
\* not since deleted, each once, none else, the later date first.
C4_AllTransactionsByDateDesc ==
    \A df \in NoFilter :
        /\ Range(df) = ledger
        /\ Len(df) = Cardinality(ledger)
        /\ \A i \in 1..(Len(df) - 1) : NotAfter(DateOf(df[i + 1].date), DateOf(df[i].date))

\* An unfiltered query returned two transactions of different dates after a
\* third one was deleted.
C4_Witness ==
    /\ last.op = "get_transactions"
    /\ last.query = QueryText(None, None, None, None)
    /\ Len(last.ret) = 2
    /\ last.ret[1].date # last.ret[2].date
    /\ sqlite_sequence.transactions = 3

\* C5: for every combination of filters, get_transactions returns the stored
\* transactions that meet every filter that was supplied (date >= start_date,
\* date <= end_date, type and category equal), an omitted filter constraining
\* nothing.
C5_FiltersConjunction ==
    \A start_date \in DateFilters, end_date \in DateFilters,
       trans_type \in TypeFilters, category \in CategoryFilters :
        \A df \in TransactionsResult(transactions, start_date, end_date, trans_type, category) :
            Range(df) = {t \in transactions :
                            /\ start_date # None => TextLeq(start_date[1], t.date)
                            /\ end_date # None => TextLeq(t.date, end_date[1])
                            /\ trans_type # None => t.type = trans_type[1]
                            /\ category # None => t.category = category[1]}

\* C6: delete_transaction(id) removes the row of that id and no other: where
\* the id is stored the table loses one row, the unfiltered query then
\* returns the other transactions, unchanged, and not that id; where the id
\* is not stored nothing changes.
C6_DeleteExactlyOne ==
    [][last'.op = "delete_transaction" =>
        LET id == last'.args[1] IN
        /\ (\E t \in transactions : t.id = id) =>
              Cardinality(transactions') = Cardinality(transactions) - 1
        /\ \A df \in TransactionsResult(transactions', None, None, None, None) :
              /\ Range(df) = {t \in transactions : t.id # id}
              /\ \A i \in 1..Len(df) : df[i].id # id
        /\ (~ \E t \in transactions : t.id = id) => transactions' = transactions
        /\ UNCHANGED <<categories, budgets, sqlite_sequence>>]_vars

\* An id deleted a second time, while another transaction is stored.
C6_Witness ==
    /\ last.op = "delete_transaction"
    /\ last.rowcount = 0
    /\ last.args[1] <= sqlite_sequence.transactions
    /\ transactions # {}
    /\ Cardinality(transactions) < sqlite_sequence.transactions

\* C7: clear_all_data leaves no transaction and no budget of any month and
\* year, and the categories as they were, so not empty.
C7_ClearKeepsCategories ==
    [][last'.op = "clear_all_data" =>
        /\ TransactionsResult(transactions', None, None, None, None) = {<<>>}
        /\ \A month \in Months, year \in Years :
              SelectAllBudgets(budgets', month, year) = {<<>>}
        /\ budgets' = {}
        /\ categories' = categories
        /\ categories' # {}]_vars

\* A clear that removed transactions and budgets, with a category added.
C7_Witness ==
    /\ last.op = "clear_all_data"
    /\ last.rowcount[1] > 0
    /\ last.rowcount[2] > 0
    /\ \E c \in categories : c.name = "Pets"

RECURSIVE TotalOf(_)
TotalOf(df) == IF df = <<>> THEN 0 ELSE Head(df).total + TotalOf(Tail(df))

RECURSIVE AmountOf(_)
AmountOf(rows) ==
    IF rows = {} THEN 0
    ELSE LET r == CHOOSE r \in rows : TRUE IN r.amount + AmountOf(rows \ {r})

ExpensesIn(d, e) ==
    {t \in transactions : /\ t.type = "expense"
                          /\ NotAfter(d, DateOf(t.date))
                          /\ NotAfter(DateOf(t.date), e)}

\* C8: for every range of dates, the totals get_spending_by_category returns
\* add up to the amounts of the expense transactions dated in the range; a
\* category is returned once, only if it has such an expense, and the larger
\* total comes first.
C8_SpendingTotals ==
    \A d \in CalendarDates, e \in CalendarDates :
        \A df \in SpendingResult(transactions, strftime(d), strftime(e)) :
            /\ TotalOf(df) = AmountOf(ExpensesIn(d, e))
            /\ \A i, j \in 1..Len(df) : i # j => df[i].category # df[j].category
            /\ \A i \in 1..Len(df) :
                  df[i].total = AmountOf({t \in ExpensesIn(d, e) : t.category = df[i].category})
            /\ {df[i].category : i \in 1..Len(df)} = {t.category : t \in ExpensesIn(d, e)}
            /\ \A i \in 1..(Len(df) - 1) : df[i].total >= df[i + 1].total

\* Two categories returned, the larger total first, while an income is
\* stored under one of them.
C8_Witness ==
    /\ last.op = "get_spending_by_category"
    /\ Len(last.ret) = 2
    /\ last.ret[1].total > last.ret[2].total
    /\ \E t \in transactions :
          /\ t.type = "income"
          /\ t.category \in {last.ret[1].category, last.ret[2].category}
          /\ TextLeq(last.args[1], t.date) /\ TextLeq(t.date, last.args[2])

\* C9: add_category with a name that is stored returns False and leaves the
\* categories as they were; with a new name it returns True and adds one row,
\* of that name, type and icon.
C9_AddCategoryDuplicate ==
    [][last'.op = "add_category" =>
        IF \E c \in categories : c.name = last'.args[1]
        THEN /\ last'.ret = FALSE
             /\ categories' = categories
        ELSE /\ last'.ret = TRUE
             /\ categories \subseteq categories'
             /\ Cardinality(categories') = Cardinality(categories) + 1
             /\ \E c \in categories' \ categories :
                   /\ c.name = last'.args[1]
                   /\ c.type = last'.args[2]
                   /\ c.icon = last'.args[3]]_vars

\* An added category refused when added again with the other type.
C9_Witness ==
    /\ last.op = "add_category"
    /\ last.ret = FALSE
    /\ last.args[1] = "Pets"
    /\ \E c \in categories : c.name = "Pets" /\ c.type # last.args[2]

\* C10: init_database run again changes no row of the three tables.
C10_InitIdempotent ==
    [][last'.op = "init_database" =>
        /\ categories' = categories
        /\ transactions' = transactions
        /\ budgets' = budgets]_vars

\* Run again with a transaction, a budget and an added category stored.
C10_Witness ==
    /\ last.op = "init_database"
    /\ transactions # {}
    /\ budgets # {}
    /\ \E c \in categories : c.name = "Pets"

\* C11: in every state the application reaches, and after every step, each
\* stored transaction has an amount >= 0 and a type that is income or
\* expense; and a step that leaves a transaction row that was not there
\* before is an add_transaction call.
C11_AmountNonNegative ==
    [][/\ \A t \in transactions' : t.amount >= 0 /\ t.type \in Types
       /\ (transactions' \ transactions # {} => last'.op = "add_transaction")]_vars

\* An expense form with amount 0 was turned down while an income and an
\* expense entered through the forms are stored.
C11_Witness ==
    /\ last.op = "expense_form"
    /\ last.args[1] = 0
    /\ \E t \in transactions : t.type = "income" /\ t.category = "Salary" /\ t.amount = 2
    /\ \E t \in transactions : t.type = "expense" /\ t.category = "Food & Dining"

\* The (name, type, icon) of a category row.
CategoryFacts(rows) == {<<c.name, c.type, c.icon>> : c \in rows}

DefaultsPresent ==
    \A i \in 1..Len(default_categories) : default_categories[i] \in CategoryFacts(categories)

\* C12: the 14 default categories are stored, with their name, type and
\* icon, in every state from the first initialize on, and every operation of
\* the store leaves each category row of the state before it in place and
\* unchanged, so the set of categories only grows.
C12_CategoriesOnlyGrow ==
    /\ []DefaultsPresent
    /\ [][categories \subseteq categories']_vars

\* All data was cleared after a category was added: the 14 defaults and the
\* added one are stored.
C12_Witness ==
    /\ last.op = "clear_all_data"
    /\ last.rowcount # <<0, 0>>
    /\ <<"Pets", "income", "U+1F43E">> \in CategoryFacts(categories)
    /\ Cardinality(categories) = Len(default_categories) + 1

\* C13: no two stored transactions have the same id, and every
\* add_transaction stores one new row under an id greater than every id
\* assigned before it, whether the transaction of that id is still stored,
\* was deleted or was cleared; no step brings a row back under an id that
\* was assigned before.
C13_IdsNeverReused ==
    [][/\ \A t1, t2 \in transactions' : t1.id = t2.id => t1 = t2
       /\ \A t \in transactions' : t.id \in issued => t \in transactions
       /\ last'.op = "add_transaction" =>
             \E t \in transactions' :
                /\ transactions' = transactions \cup {t}
                /\ \A i \in issued : t.id > i]_vars

\* A transaction was added after the two added before it were removed: it
\* is stored under the third id, and it is the only one stored.
C13_Witness ==
    /\ last.op = "add_transaction"
    /\ issued = 1..3
    /\ {t.id : t \in transactions} = {3}

====
